---- MODULE Spec2Model ----
(***************************************************************************)
(* Job orchestration and live feedback of the two scraper front-ends:      *)
(*   src/strigil/gui.py      (Scrape/Stop, sequential or parallel runs)    *)
(*   src/web_scraper/gui.py  (basic scraper: one child, no Stop)           *)
(* Worker threads push the lines of their child process and a final None   *)
(* (the JobDone sentinel) into output_queue; a timer-driven poll on the UI *)
(* thread drains the queue and schedules root.after(0, ...) callbacks that *)
(* append to the log and update the status.                                *)
(***************************************************************************)
EXTENDS Integers, Sequences, FiniteSets, TLC

\* ------------------------------------------------------------------ bounds
MaxEvents == 3      \* runs started + Stop clicks + rejected Scrape clicks + lines written
MaxUrls == 2        \* URLs of one run
MaxThreads == 3     \* worker threads started
MaxEdits == 3       \* widget changes by the user in one behaviour
MaxSize == 2100     \* largest byte count, KiB count given to _size_to_arg
MaxLines == 4       \* lines given to update_status in one behaviour

\* ------------------------------------------------------- text of the inputs
\* A line of the URL box is a sequence of characters; " " is whitespace.
IsSpace(c) == c = " "

RECURSIVE LStrip(_)
LStrip(s) == IF s # <<>> /\ IsSpace(Head(s)) THEN LStrip(Tail(s)) ELSE s

RECURSIVE RStrip(_)
RStrip(s) == IF s # <<>> /\ IsSpace(s[Len(s)]) THEN RStrip(SubSeq(s, 1, Len(s) - 1)) ELSE s

\* str.strip()
Strip(s) == RStrip(LStrip(s))

\* urls = [line.strip() for line in text.splitlines() if line.strip()]
RECURSIVE ParseUrls(_)
ParseUrls(text) ==
    IF text = <<>> THEN <<>>
    ELSE IF Strip(Head(text)) # <<>>
         THEN <<Strip(Head(text))>> \o ParseUrls(Tail(text))
         ELSE ParseUrls(Tail(text))

\* The lines a user may type into the URL box.
UrlLines == { <<" ">>, <<" ", "a", " ">> }

RECURSIVE SeqsUpTo(_, _)
SeqsUpTo(S, n) ==
    IF n = 0 THEN { <<>> }
    ELSE LET shorter == SeqsUpTo(S, n - 1)
         IN shorter \cup { Append(s, x) : s \in shorter, x \in S }

\* Contents of the URL text box (strigil) and of the URL entry (basic scraper).
UrlTexts == SeqsUpTo(UrlLines, MaxUrls + 1)
UrlEntries == UrlLines \cup { <<>> }

ContentTypes == {"pdf", "text", "images"}
TypeSelections == { {}, {"text"}, {"pdf", "images"}, ContentTypes }
UrlsModes == {"sequential", "parallel"}

\* ------------------------------------------------------------------ events
\* An item of output_queue: a line (str) or None.  src is the worker thread
\* that enqueued it (0: the UI thread), n the position of the line in the
\* child's output, run the run of the enqueuing worker; src, n and run are
\* bookkeeping that no operation reads.
Line(w, r, n, prefix, text) ==
    [kind |-> "Line", src |-> w, run |-> r, n |-> n, prefix |-> prefix, text |-> text]
JobDone(w, r) ==
    [kind |-> "None", src |-> w, run |-> r, n |-> 0, prefix |-> <<>>, text |-> {}]
UiLine(s) == Line(0, 0, 0, <<>>, {s})

\* Texts a child may print: the set of the markers the text contains.
LineTexts == { {}, {"Found:"}, {"Done."} }
ErrorText == {"Error:"}

VARIABLES
    app,            \* which front-end runs: "strigil" or "basic"
    output_queue,   \* queue.Queue[str | None]
    current_proc,   \* current_proc[0]: handle of the sequential child, 0 = None
    current_procs,  \* list of the handles of the parallel children
    state_var,      \* Idle | Running | Finished | Stopped
    progress_var,
    scrape_btn,     \* "normal" | "disabled"
    stop_btn,
    log_text,       \* lines appended to the log widget
    after_queue,    \* callbacks scheduled with root.after(0, ...)
    poll_timer,     \* the poll rescheduled with root.after(150/100, ...)
    run,            \* closure variables of the last started run
    threads,        \* worker threads and their child processes
    stop_call       \* the do_stop call in progress on the UI thread

VARIABLES
    widgets,        \* the Tk variables of the configuration widgets
    snapshot,       \* locals of run_scrape that build_cmd closes over
    launched,       \* the workers run_scrape has started and the command of each
    edits,          \* how often the user has changed a configuration widget
    size_arg,       \* the last _size_to_arg(n) call: n and what it returned
    deps            \* the check_required() call of main(): its inputs and how it ended

\* The configuration and the commands built from it: the orchestration never
\* reads them (the child is a black box), the command builder reads nothing else.
config_vars == << widgets, snapshot, launched, edits, size_arg, deps >>

vars == << app, output_queue, current_proc, current_procs, state_var, progress_var,
           scrape_btn, stop_btn, log_text, after_queue, poll_timer, run, threads,
           stop_call, config_vars >>

\* What the orchestration reads and writes.
gui_vars == << app, output_queue, current_proc, current_procs, state_var, progress_var,
               scrape_btn, stop_btn, log_text, after_queue, poll_timer, run, threads,
               stop_call >>

\* ------------------------------------------------------- the configuration
\* A text (URL, done-script template) is a sequence of characters; an argv
\* token is a string.
RECURSIVE Text(_)
Text(chars) == IF chars = <<>> THEN "" ELSE Head(chars) \o Text(Tail(chars))

\* workers_var is a tk.IntVar: get() returns the integer typed into the
\* spinbox, or raises TclError when the text is no integer (ok = FALSE).
WorkerEntry(n) == [ ok |-> TRUE, n |-> n ]
NoInteger == [ ok |-> FALSE, n |-> 0 ]
WorkerEntries == { WorkerEntry(n) : n \in {0 - 3, 0, 1, 4, 12, 13} } \cup { NoInteger }

\* Lines of the URL box and done-script templates the user may type.
ConfigUrlLines == { <<" ">>, <<" ", "a">>, <<"b", " ">> }
ConfigUrlTexts == SeqsUpTo(ConfigUrlLines, MaxUrls)
ScriptTemplates == { <<>>, <<" ">>, <<" ", "s">> }
EndpointTexts == { <<>>, <<" ">>, <<" ", "f">> }

\* The widgets as main() creates them; the URL box shows the URL of the
\* last session (_load_last_urls).
DefaultWidgets ==
    [ url_text |-> << <<" ", "a">> >>, urls_mode |-> "sequential",
      type_pdf |-> TRUE, type_text |-> TRUE, type_images |-> TRUE,
      size_small |-> TRUE, size_medium |-> TRUE, size_large |-> TRUE,
      js |-> TRUE, flaresolverr |-> FALSE, flaresolverr_url |-> <<>>,
      crawl |-> TRUE, depth |-> 2, same_domain |-> TRUE,
      workers |-> WorkerEntry(4), keep_awake |-> FALSE, done_script |-> <<>> ]

\* The widgets of the basic scraper as its main() creates them: crawl is off.
BasicWidgets == [DefaultWidgets EXCEPT !.crawl = FALSE]

\* The values the user may give to a widget.
WidgetValues(field) ==
    CASE field = "url_text" -> ConfigUrlTexts
      [] field = "urls_mode" -> UrlsModes
      [] field = "workers" -> WorkerEntries
      [] field = "depth" -> {2, 3}
      [] field = "done_script" -> ScriptTemplates
      [] field = "flaresolverr_url" -> EndpointTexts
      [] OTHER -> BOOLEAN

NoSnapshot ==
    [ started |-> FALSE, read |-> DefaultWidgets, urls |-> <<>>,
      run_parallel |-> FALSE, common_args |-> <<>>,
      types_args |-> <<>>, done_script |-> "", out_dir |-> "", delay |-> "" ]

NoSizeArg == [ n |-> 0, arg |-> [ num |-> 0, unit |-> "" ] ]

\* --------------------------------------------------------------- initially
\* No check_required() call yet.
NoDeps == [ pc |-> "idle", importable |-> {}, env |-> "", pip |-> "none", status |-> 0 - 1 ]

NoRun ==
    [ id |-> 0, mode |-> "none", num_urls |-> 0, parallel_done_count |-> 0,
      scrape_counts |-> <<0, 0, 0>>, done_script |-> FALSE,
      stops |-> 0, all_stops |-> 0, stop_live |-> FALSE, reported |-> FALSE,
      own_done |-> 0, scripts |-> 0, script_running |-> FALSE ]

NoStop ==
    [ pc |-> "idle", procs |-> <<>>, tracked |-> {}, hit |-> {}, missed |-> {},
      raised |-> FALSE ]

Init ==
    /\ app \in {"strigil", "basic"}
    /\ output_queue = <<>>
    /\ current_proc = 0
    /\ current_procs = <<>>
    /\ state_var = IF app = "strigil" THEN "Idle" ELSE "(none)"
    /\ progress_var = IF app = "strigil" THEN "-" ELSE "(none)"
    /\ scrape_btn = "normal"
    /\ stop_btn = IF app = "strigil" THEN "disabled" ELSE "(none)"
    /\ log_text = <<>>
    /\ after_queue = <<>>
    /\ poll_timer = "none"
    /\ run = NoRun
    /\ threads = <<>>
    /\ stop_call = NoStop
    /\ widgets = IF app = "basic" THEN BasicWidgets ELSE DefaultWidgets
    /\ snapshot = NoSnapshot
    /\ launched = <<>>
    /\ edits = 0
    /\ size_arg = NoSizeArg
    /\ deps = NoDeps

\* ------------------------------------------------------ progress interpreter
\* The markers found in a queued line: those of the child's text and, in
\* parallel mode, those of the "[i/N] " prefix put in front of it.
Markers(ev) == ev.text \cup (IF ev.prefix # <<>> THEN {"/", "] "} ELSE {})

CountsMsg(c) ==
    ToString(c[1]) \o " PDFs, " \o ToString(c[2]) \o " texts, " \o ToString(c[3]) \o " images"

\* set_progress(msg, finished)
set_progress(msg, finished, counts) ==
    [ state |-> IF finished THEN "Finished" ELSE "Running", progress |-> msg, counts |-> counts ]

\* update_status(line): the new state_var, progress_var and scrape_counts.
update_status(ev, st, pr, c) ==
    LET m == Markers(ev) IN
    IF {"Running:", "Scrape:", "Iteration"} \cap m # {} THEN set_progress("Starting...", FALSE, c)
    ELSE IF "Found:" \in m THEN set_progress("Mapping done - downloading...", FALSE, c)
    ELSE IF "-> Downloading" \in m THEN set_progress("Downloading...", FALSE, c)
    ELSE IF "  [" \in m /\ "/" \in m /\ "] " \in m THEN
        IF "  [3/7]" \in m THEN set_progress("3/7 assets", FALSE, c)
        ELSE [ state |-> st, progress |-> pr, counts |-> c ]
    ELSE IF "  Text:" \in m THEN
        LET c2 == [c EXCEPT ![2] = @ + 1] IN set_progress(CountsMsg(c2), FALSE, c2)
    ELSE IF "  Image:" \in m THEN
        LET c2 == [c EXCEPT ![3] = @ + 1] IN set_progress(CountsMsg(c2), FALSE, c2)
    ELSE IF "  PDF:" \in m THEN
        LET c2 == [c EXCEPT ![1] = @ + 1] IN set_progress(CountsMsg(c2), FALSE, c2)
    ELSE IF "Done." \in m THEN set_progress(CountsMsg(c), TRUE, c)
    ELSE [ state |-> st, progress |-> pr, counts |-> c ]

\* ------------------------------------------------------- root.after(0, ...)
LineCallback(ev) == [ cb |-> "line", ev |-> ev ]
CompleteCallback == [ cb |-> "complete", ev |-> UiLine("") ]
DoneScriptCallback == [ cb |-> "done_script", ev |-> UiLine("") ]

\* Faulty variant: the callbacks of one poll are served last-in first-out.
LineCallbacks_lifo(evs) == [ i \in 1..Len(evs) |-> LineCallback(evs[Len(evs) + 1 - i]) ]

LineCallbacks(evs) == [ i \in 1..Len(evs) |-> LineCallback(evs[i]) ]

\* --------------------------------------------------------------- the polls
\* The while-loop of poll_queue: get_nowait() until None (taken, saw_done)
\* or queue.Empty.
RECURSIVE DrainSeq(_, _)
DrainSeq(q, taken) ==
    IF q = <<>> THEN [ lines |-> taken, saw_done |-> FALSE, rest |-> q, nones |-> <<>> ]
    ELSE IF Head(q).kind = "None"
         THEN [ lines |-> taken, saw_done |-> TRUE, rest |-> Tail(q), nones |-> <<Head(q)>> ]
         ELSE DrainSeq(Tail(q), Append(taken, Head(q)))

\* The while-loop of poll_queue_parallel: every None counts, the loop breaks
\* when the count reaches num_urls.
RECURSIVE DrainPar(_, _, _, _, _)
DrainPar(q, taken, nones, count, n) ==
    IF q = <<>> THEN [ lines |-> taken, count |-> count, rest |-> q, nones |-> nones ]
    ELSE IF Head(q).kind = "None"
         THEN IF count + 1 >= n
              THEN [ lines |-> taken, count |-> count + 1, rest |-> Tail(q),
                     nones |-> Append(nones, Head(q)) ]
              ELSE DrainPar(Tail(q), taken, Append(nones, Head(q)), count + 1, n)
         ELSE DrainPar(Tail(q), Append(taken, Head(q)), nones, count, n)

\* Sentinels among nones that a worker of run r enqueued.
OwnNones(nones, r) == Cardinality({ i \in 1..Len(nones) : nones[i].run = r /\ nones[i].src # 0 })

\* poll_queue(btn) of a run whose closure is r, with aq the callbacks pending.
PollSeq(r, aq) ==
    LET d == DrainSeq(output_queue, <<>>) IN
    /\ output_queue' = d.rest
    /\ after_queue' = aq \o LineCallbacks(d.lines)
                         \o (IF d.saw_done THEN <<CompleteCallback>> ELSE <<>>)
    /\ poll_timer' = IF d.saw_done THEN "none" ELSE r.mode
    /\ run' = [r EXCEPT !.own_done = @ + OwnNones(d.nones, r.id)]

\* poll_queue_parallel(btn)
PollPar(r, aq) ==
    LET d == DrainPar(output_queue, <<>>, <<>>, r.parallel_done_count, r.num_urls)
        complete == d.count >= r.num_urls
    IN
    /\ output_queue' = d.rest
    /\ after_queue' = aq \o LineCallbacks(d.lines)
                         \o (IF complete /\ r.done_script THEN <<DoneScriptCallback>> ELSE <<>>)
                         \o (IF complete THEN <<CompleteCallback>> ELSE <<>>)
    /\ poll_timer' = IF complete THEN "none" ELSE r.mode
    /\ run' = [r EXCEPT !.parallel_done_count = d.count,
                        !.own_done = @ + OwnNones(d.nones, r.id)]

\* The UI thread runs one handler at a time: it is free when no do_stop call
\* is in progress and it is not inside subprocess.run of the done script.
UiFree == stop_call.pc = "idle" /\ ~run.script_running

\* The timer fires: root.after(150, lambda: poll_queue(btn)).  The callbacks
\* scheduled with after(0) are due earlier and have run by then.
poll_queue ==
    /\ app = "strigil" /\ UiFree
    /\ poll_timer = "seq" /\ after_queue = <<>>
    /\ PollSeq(run, after_queue)
    /\ UNCHANGED << config_vars, app, current_proc, current_procs, state_var, progress_var,
                    scrape_btn, stop_btn, log_text, threads, stop_call >>

poll_queue_parallel ==
    /\ app = "strigil" /\ UiFree
    /\ poll_timer = "par" /\ after_queue = <<>>
    /\ PollPar(run, after_queue)
    /\ UNCHANGED << config_vars, app, current_proc, current_procs, state_var, progress_var,
                    scrape_btn, stop_btn, log_text, threads, stop_call >>

\* root.after(100, lambda: poll_queue(btn)) of the basic scraper.
basic_poll_queue ==
    /\ app = "basic"
    /\ poll_timer = "basic" /\ after_queue = <<>>
    /\ PollSeq(run, after_queue)
    /\ UNCHANGED << config_vars, app, current_proc, current_procs, state_var, progress_var,
                    scrape_btn, stop_btn, log_text, threads, stop_call >>

\* One root.after(0, ...) callback f run in the UI state u
\* (log, state, progress, counts, scrape, stop, reported, scripts).
RunCallback(f, u) ==
    CASE f.cb = "line" ->
           \* lambda l=line: (append_log(l), update_status(l))
           IF app = "strigil"
           THEN LET s == update_status(f.ev, u.state, u.progress, u.counts) IN
                [u EXCEPT !.log = Append(@, f.ev), !.state = s.state,
                          !.progress = s.progress, !.counts = s.counts]
           ELSE [u EXCEPT !.log = Append(@, f.ev)]
      [] f.cb = "complete" ->
           \* lambda: (stop_btn_ref.config(state=DISABLED), btn.config(state=NORMAL))
           [u EXCEPT !.scrape = "normal",
                     !.stop = IF app = "strigil" THEN "disabled" ELSE @,
                     !.reported = TRUE]
      [] f.cb = "done_script" ->
           \* lambda: run_done_script_async(done_script, out_dir)
           [u EXCEPT !.scripts = @ + 1]

RECURSIVE RunCallbacks(_, _)
RunCallbacks(fs, u) ==
    IF fs = <<>> THEN u ELSE RunCallbacks(Tail(fs), RunCallback(Head(fs), u))

\* Position of the first done-script callback of fs, 0 if there is none.
FirstScript(fs) ==
    IF \E i \in 1..Len(fs) : fs[i].cb = "done_script"
    THEN CHOOSE i \in 1..Len(fs) :
            /\ fs[i].cb = "done_script"
            /\ \A j \in 1..(i - 1) : fs[j].cb # "done_script"
    ELSE 0

\* The event loop serves the timer handlers that are due: the callbacks
\* scheduled with root.after(0, ...) run in the order they were scheduled.
\* run_done_script_async calls subprocess.run(cmd, shell=True), which returns
\* when the script has ended: the callbacks behind it wait until then.
after_callbacks ==
    /\ UiFree /\ after_queue # <<>>
    /\ LET k == FirstScript(after_queue)
           served == IF k = 0 THEN after_queue ELSE SubSeq(after_queue, 1, k)
           u == RunCallbacks(served,
                    [ log |-> log_text, state |-> state_var, progress |-> progress_var,
                      counts |-> run.scrape_counts, scrape |-> scrape_btn,
                      stop |-> stop_btn, reported |-> run.reported,
                      scripts |-> run.scripts ])
       IN /\ log_text' = u.log
          /\ state_var' = u.state
          /\ progress_var' = u.progress
          /\ scrape_btn' = u.scrape
          /\ stop_btn' = u.stop
          /\ run' = [run EXCEPT !.scrape_counts = u.counts, !.reported = u.reported,
                                !.scripts = u.scripts, !.script_running = (k # 0)]
          /\ after_queue' = IF k = 0 THEN <<>>
                            ELSE SubSeq(after_queue, k + 1, Len(after_queue))
    /\ UNCHANGED << config_vars, app, output_queue, current_proc, current_procs, poll_timer,
                    threads, stop_call >>

\* The done script ends (or the shell could not be started: except Exception:
\* pass): subprocess.run returns and the UI thread goes back to its event loop.
done_script_exits ==
    /\ run.script_running
    /\ run' = [run EXCEPT !.script_running = FALSE]
    /\ UNCHANGED << config_vars, app, output_queue, current_proc, current_procs, state_var,
                    progress_var, scrape_btn, stop_btn, log_text, after_queue,
                    poll_timer, threads, stop_call >>

\* ------------------------------------------------------------- the budget
RECURSIVE SumLines(_)
SumLines(ths) == IF ths = <<>> THEN 0 ELSE Head(ths).lines + SumLines(Tail(ths))

UrlRequired == UiLine("Error: At least one URL is required.")
TypeRequired == UiLine("Error: Select at least one file type.")
BasicUrlRequired == UiLine("Error: URL is required.")

IsValidationError(e) == e \in {UrlRequired, TypeRequired, BasicUrlRequired}
NumInvalid == Cardinality({ i \in 1..Len(log_text) : IsValidationError(log_text[i]) })

\* What the environment has done so far: runs started, Stop clicks, Scrape
\* clicks rejected, lines written by the children.
Events == run.id + run.all_stops + NumInvalid + SumLines(threads)

\* ---------------------------------------------------- threads and children
\* threading.Thread(target=..., daemon=True): a handle of a child process is
\* the index of the thread that spawned it.  lines, errors, nones and late
\* count what the thread has enqueued (late: lines after its None).
NewThread(r, kind, idx, n) ==
    [ run |-> r, kind |-> kind, idx |-> idx, num_urls |-> n, pc |-> "start",
      proc |-> "none", term |-> FALSE,
      lines |-> 0, errors |-> 0, nones |-> 0, late |-> 0 ]

\* prefix = f"[{idx + 1}/{num_urls}] " of a parallel worker; none otherwise.
Prefix(t) == IF t.kind = "par" THEN <<t.idx, t.num_urls>> ELSE <<>>

\* subprocess.Popen(cmd, ...) returns: the child runs.
Spawn(w, next) ==
    /\ threads[w].pc = "start"
    /\ threads' = [threads EXCEPT ![w].pc = next, ![w].proc = "running"]

\* Faulty variant: output_queue.put(None) sits inside the try block, so the
\* spawn-failure path reports the error and never enqueues the sentinel.
SpawnFails_no_sentinel(w) ==
    /\ threads[w].pc = "start"
    /\ output_queue' = Append(output_queue,
                              Line(w, threads[w].run, 1, Prefix(threads[w]), ErrorText))
    /\ threads' = [threads EXCEPT ![w].pc = "done", ![w].errors = @ + 1]

\* subprocess.Popen raises: except Exception as e: output_queue.put("Error: ..."),
\* then output_queue.put(None).
SpawnFails(w) ==
    /\ threads[w].pc = "start"
    /\ output_queue' = output_queue
                         \o << Line(w, threads[w].run, 1, Prefix(threads[w]), ErrorText),
                               JobDone(w, threads[w].run) >>
    /\ threads' = [threads EXCEPT ![w].pc = "done", ![w].errors = @ + 1, ![w].nones = @ + 1]

\* for line in proc.stdout: output_queue.put(prefix + line)
ReadLine(w, text) ==
    /\ threads[w].pc = "read" /\ threads[w].proc = "running"
    /\ Events < MaxEvents
    /\ output_queue' = Append(output_queue,
                              Line(w, threads[w].run, threads[w].lines + 1,
                                   Prefix(threads[w]), text))
    /\ threads' = [threads EXCEPT ![w].lines = @ + 1,
                                  ![w].late = @ + (IF threads[w].nones > 0 THEN 1 ELSE 0)]

\* The child closes its output and exits (cleanly or not, of its own accord
\* or after a termination request): the for-loop over proc.stdout ends and
\* the worker runs output_queue.put(None).
Eof(w) ==
    /\ threads[w].pc = "read" /\ threads[w].proc = "running"
    /\ output_queue' = Append(output_queue, JobDone(w, threads[w].run))
    /\ threads' = [threads EXCEPT ![w].pc = "done", ![w].proc = "closed",
                                  ![w].nones = @ + 1]

\* --- worker() of the sequential branch
worker_spawn(w) ==
    /\ threads[w].kind = "seq" /\ Spawn(w, "set")
    /\ UNCHANGED << config_vars, app, output_queue, current_proc, current_procs, state_var,
                    progress_var, scrape_btn, stop_btn, log_text, after_queue,
                    poll_timer, run, stop_call >>

\* ... finally: current_proc[0] = None
worker_spawn_fails(w) ==
    /\ threads[w].kind = "seq" /\ SpawnFails(w)
    /\ current_proc' = 0
    /\ UNCHANGED << config_vars, app, current_procs, state_var, progress_var, scrape_btn, stop_btn,
                    log_text, after_queue, poll_timer, run, stop_call >>

\* current_proc[0] = proc
worker_set_proc(w) ==
    /\ threads[w].kind = "seq" /\ threads[w].pc = "set"
    /\ current_proc' = w
    /\ threads' = [threads EXCEPT ![w].pc = "read"]
    /\ UNCHANGED << config_vars, app, output_queue, current_procs, state_var, progress_var,
                    scrape_btn, stop_btn, log_text, after_queue, poll_timer, run,
                    stop_call >>

worker_read_line(w, text) ==
    /\ threads[w].kind = "seq" /\ ReadLine(w, text)
    /\ UNCHANGED << config_vars, app, current_proc, current_procs, state_var, progress_var,
                    scrape_btn, stop_btn, log_text, after_queue, poll_timer, run,
                    stop_call >>

\* ... finally: current_proc[0] = None
worker_eof(w) ==
    /\ threads[w].kind = "seq" /\ Eof(w)
    /\ current_proc' = 0
    /\ UNCHANGED << config_vars, app, current_procs, state_var, progress_var, scrape_btn, stop_btn,
                    log_text, after_queue, poll_timer, run, stop_call >>

\* --- parallel_worker(idx, url)
parallel_worker_spawn(w) ==
    /\ threads[w].kind = "par" /\ Spawn(w, "track")
    /\ UNCHANGED << config_vars, app, output_queue, current_proc, current_procs, state_var,
                    progress_var, scrape_btn, stop_btn, log_text, after_queue,
                    poll_timer, run, stop_call >>

parallel_worker_spawn_fails(w) ==
    /\ threads[w].kind = "par" /\ SpawnFails(w)
    /\ UNCHANGED << config_vars, app, current_proc, current_procs, state_var, progress_var,
                    scrape_btn, stop_btn, log_text, after_queue, poll_timer, run,
                    stop_call >>

\* with procs_lock: current_procs.append(proc)
parallel_worker_track(w) ==
    /\ threads[w].kind = "par" /\ threads[w].pc = "track"
    /\ current_procs' = Append(current_procs, w)
    /\ threads' = [threads EXCEPT ![w].pc = "read"]
    /\ UNCHANGED << config_vars, app, output_queue, current_proc, state_var, progress_var,
                    scrape_btn, stop_btn, log_text, after_queue, poll_timer, run,
                    stop_call >>

parallel_worker_read_line(w, text) ==
    /\ threads[w].kind = "par" /\ ReadLine(w, text)
    /\ UNCHANGED << config_vars, app, current_proc, current_procs, state_var, progress_var,
                    scrape_btn, stop_btn, log_text, after_queue, poll_timer, run,
                    stop_call >>

parallel_worker_eof(w) ==
    /\ threads[w].kind = "par" /\ Eof(w)
    /\ UNCHANGED << config_vars, app, current_proc, current_procs, state_var, progress_var,
                    scrape_btn, stop_btn, log_text, after_queue, poll_timer, run,
                    stop_call >>

\* --- worker() of the basic scraper
basic_worker_spawn(w) ==
    /\ threads[w].kind = "basic" /\ Spawn(w, "read")
    /\ UNCHANGED << config_vars, app, output_queue, current_proc, current_procs, state_var,
                    progress_var, scrape_btn, stop_btn, log_text, after_queue,
                    poll_timer, run, stop_call >>

basic_worker_spawn_fails(w) ==
    /\ threads[w].kind = "basic" /\ SpawnFails(w)
    /\ UNCHANGED << config_vars, app, current_proc, current_procs, state_var, progress_var,
                    scrape_btn, stop_btn, log_text, after_queue, poll_timer, run,
                    stop_call >>

basic_worker_read_line(w, text) ==
    /\ threads[w].kind = "basic" /\ ReadLine(w, text)
    /\ UNCHANGED << config_vars, app, current_proc, current_procs, state_var, progress_var,
                    scrape_btn, stop_btn, log_text, after_queue, poll_timer, run,
                    stop_call >>

basic_worker_eof(w) ==
    /\ threads[w].kind = "basic" /\ Eof(w)
    /\ UNCHANGED << config_vars, app, current_proc, current_procs, state_var, progress_var,
                    scrape_btn, stop_btn, log_text, after_queue, poll_timer, run,
                    stop_call >>

\* ------------------------------------------------------------------ do_stop
Range(f) == { f[i] : i \in DOMAIN f }

\* p.terminate() for every handle in S: a running child gets the request.
Terminate(ths, S) ==
    [ i \in DOMAIN ths |->
        IF i \in S /\ ths[i].proc = "running" THEN [ths[i] EXCEPT !.term = TRUE] ELSE ths[i] ]

\* What current_proc[0].terminate() raises when the handle read is h.
TerminateRaises(h) == IF h = 0 THEN "AttributeError" ELSE "none"

\* try: ... except Exception: pass
Swallowed(exc) == exc \in {"none", "AttributeError", "ProcessLookupError", "OSError"}

\* A child of the current run is running.
ChildRunning == \E w \in DOMAIN threads : threads[w].run = run.id /\ threads[w].proc = "running"

\* state_var.set("Stopped"); progress_var.set("-"); the call returns.
\* missed: the handles tracked when Stop was clicked that got no terminate().
\* live: a child of the run was running when Stop was clicked.
StopReturn(tracked, hit, live) ==
    /\ state_var' = "Stopped"
    /\ progress_var' = "-"
    /\ stop_call' = [NoStop EXCEPT !.missed = tracked \ hit]
    /\ run' = [run EXCEPT !.stops = @ + 1, !.all_stops = @ + 1, !.stop_live = @ \/ live]

\* The call ends with an exception that no handler of do_stop catches.
StopRaises(tracked, hit) ==
    /\ stop_call' = [NoStop EXCEPT !.missed = tracked \ hit, !.raised = TRUE]
    /\ run' = [run EXCEPT !.stops = @ + 1, !.all_stops = @ + 1]
    /\ UNCHANGED << state_var, progress_var >>

\* Stop is clicked.  with procs_lock: procs = list(current_procs);
\* current_procs.clear(); for p in procs: p.terminate();
\* if current_proc[0] is not None: ...
do_stop_begin ==
    /\ app = "strigil" /\ UiFree /\ stop_btn = "normal"
    /\ Events < MaxEvents
    /\ current_procs' = <<>>
    /\ threads' = Terminate(threads, Range(current_procs))
    /\ LET tracked == Range(current_procs) \cup ({current_proc} \ {0}) IN
       IF current_proc # 0
       THEN /\ stop_call' = [NoStop EXCEPT !.pc = "terminate", !.procs = current_procs,
                                           !.tracked = tracked,
                                           !.hit = Range(current_procs)]
            /\ run' = [run EXCEPT !.stop_live = @ \/ ChildRunning]
            /\ UNCHANGED << state_var, progress_var >>
       ELSE StopReturn(tracked, Range(current_procs), ChildRunning)
    /\ UNCHANGED << config_vars, app, output_queue, current_proc, scrape_btn, stop_btn, log_text,
                    after_queue, poll_timer >>

\* try: current_proc[0].terminate() except Exception: pass; output_queue.put(None)
do_stop_terminate ==
    /\ stop_call.pc = "terminate"
    /\ LET h == current_proc
           exc == TerminateRaises(h)
       IN IF Swallowed(exc)
          THEN /\ threads' = Terminate(threads, {h} \ {0})
               /\ output_queue' = Append(output_queue, JobDone(0, run.id))
               /\ StopReturn(stop_call.tracked, stop_call.hit \cup ({h} \ {0}), FALSE)
          ELSE /\ threads' = threads
               /\ output_queue' = output_queue
               /\ StopRaises(stop_call.tracked, stop_call.hit)
    /\ UNCHANGED << config_vars, app, current_proc, current_procs, scrape_btn, stop_btn, log_text,
                    after_queue, poll_timer >>

\* --------------------------------------------------------------- run_scrape
NewRun(mode, n, script) ==
    [ id |-> run.id + 1, mode |-> mode, num_urls |-> n, parallel_done_count |-> 0,
      scrape_counts |-> <<0, 0, 0>>, done_script |-> script,
      stops |-> 0, all_stops |-> run.all_stops, stop_live |-> FALSE, reported |-> FALSE,
      own_done |-> 0, scripts |-> 0, script_running |-> FALSE ]

\* Faulty variant: the URL list is validated after the run is announced
\* (Scrape disabled, state "Running").
RejectNoUrl_after_disable ==
    /\ log_text' = Append(log_text, UrlRequired)
    /\ scrape_btn' = "disabled"
    /\ state_var' = "Running"
    /\ UNCHANGED << output_queue, current_proc, current_procs, progress_var,
                    stop_btn, after_queue, poll_timer, run, threads, stop_call >>

\* if not urls: append_log("Error: At least one URL is required."); return
RejectNoUrl ==
    /\ log_text' = Append(log_text, UrlRequired)
    /\ UNCHANGED << output_queue, current_proc, current_procs, state_var, progress_var,
                    scrape_btn, stop_btn, after_queue, poll_timer, run, threads,
                    stop_call >>

\* Faulty variant: the rejection returns without undoing what run_scrape
\* did before it looked at the types (Scrape disabled, state "Running").
RejectNoType_not_undone ==
    /\ log_text' = Append(log_text, TypeRequired)
    /\ state_var' = "Running"
    /\ progress_var' = "-"
    /\ scrape_btn' = "disabled"
    /\ UNCHANGED << output_queue, current_proc, current_procs, stop_btn, after_queue,
                    poll_timer, run, threads, stop_call >>

\* if not selected_types: append_log(...); state_var.set("Idle");
\* progress_var.set("-"); scrape_btn_ref.config(state=NORMAL); return
RejectNoType ==
    /\ log_text' = Append(log_text, TypeRequired)
    /\ state_var' = "Idle"
    /\ progress_var' = "-"
    /\ scrape_btn' = "normal"
    /\ UNCHANGED << output_queue, current_proc, current_procs, stop_btn, after_queue,
                    poll_timer, run, threads, stop_call >>

\* if not url: append_log("Error: URL is required."); return
BasicRejectNoUrl ==
    /\ log_text' = Append(log_text, BasicUrlRequired)
    /\ UNCHANGED << output_queue, scrape_btn, after_queue, poll_timer, run, threads >>

\* elif not selected_types: append_log(...); scrape_btn_ref.config(state=NORMAL); return
BasicRejectNoType ==
    /\ log_text' = Append(log_text, TypeRequired)
    /\ scrape_btn' = "normal"
    /\ UNCHANGED << output_queue, after_queue, poll_timer, run, threads >>

\* Scrape is clicked in strigil: text is the URL box, mode the URLs mode,
\* types the content types ticked, script whether the done script is non-blank.
run_scrape(text, mode, types, script) ==
    /\ app = "strigil" /\ UiFree /\ scrape_btn = "normal"
    /\ LET urls == ParseUrls(text)
           run_parallel == mode = "parallel" /\ Len(urls) > 1
       IN
       /\ Len(urls) <= MaxUrls
       /\ IF urls = <<>> THEN
             /\ Events < MaxEvents
             /\ RejectNoUrl
          ELSE IF types = {} THEN
             /\ Events < MaxEvents
             /\ RejectNoType
          ELSE IF run_parallel THEN
             /\ Events < MaxEvents /\ Len(threads) + Len(urls) <= MaxThreads
             /\ scrape_btn' = "disabled"
             /\ state_var' = "Running"
             /\ progress_var' = "-"
             /\ current_procs' = <<>>
             /\ log_text' = log_text \o << UiLine("Size:"), UiLine("Running N URLs in parallel.") >>
             /\ stop_btn' = "normal"
             /\ threads' = threads \o [ i \in 1..Len(urls) |->
                                          NewThread(run.id + 1, "par", i, Len(urls)) ]
             /\ PollPar(NewRun("par", Len(urls), script), after_queue)
             /\ stop_call' = NoStop
             /\ UNCHANGED current_proc
          ELSE
             /\ Events < MaxEvents /\ Len(threads) < MaxThreads
             /\ scrape_btn' = "disabled"
             /\ state_var' = "Running"
             /\ progress_var' = "-"
             /\ log_text' = log_text \o << UiLine("Size:"), UiLine("Running: cmd") >>
             /\ stop_btn' = "normal"
             /\ threads' = Append(threads, NewThread(run.id + 1, "seq", 1, 0))
             /\ PollSeq(NewRun("seq", 0, FALSE), after_queue)
             /\ stop_call' = NoStop
             /\ UNCHANGED << current_proc, current_procs >>
    /\ UNCHANGED << config_vars, app >>

\* Scrape is clicked in the basic scraper: entry is the URL entry.
basic_run_scrape(entry, types) ==
    /\ app = "basic" /\ scrape_btn = "normal"
    /\ LET url == Strip(entry) IN
       IF url = <<>> THEN
          /\ Events < MaxEvents
          /\ BasicRejectNoUrl
       ELSE IF types = {} THEN
          /\ Events < MaxEvents
          /\ BasicRejectNoType
       ELSE
          /\ Events < MaxEvents /\ Len(threads) < MaxThreads
          /\ scrape_btn' = "disabled"
          /\ log_text' = Append(log_text, UiLine("Running: cmd"))
          /\ threads' = Append(threads, NewThread(run.id + 1, "basic", 1, 0))
          /\ PollSeq(NewRun("basic", 0, FALSE), after_queue)
    /\ UNCHANGED << config_vars, app, current_proc, current_procs, state_var, progress_var, stop_btn,
                    stop_call >>

\* ------------------------------------------------------------ specification
Next ==
    \/ \E text \in UrlTexts, mode \in UrlsModes, types \in TypeSelections,
          script \in BOOLEAN : run_scrape(text, mode, types, script)
    \/ poll_queue
    \/ poll_queue_parallel
    \/ after_callbacks
    \/ done_script_exits
    \/ do_stop_begin
    \/ do_stop_terminate
    \/ \E w \in DOMAIN threads : worker_spawn(w)
    \/ \E w \in DOMAIN threads : worker_spawn_fails(w)
    \/ \E w \in DOMAIN threads : worker_set_proc(w)
    \/ \E w \in DOMAIN threads, text \in LineTexts : worker_read_line(w, text)
    \/ \E w \in DOMAIN threads : worker_eof(w)
    \/ \E w \in DOMAIN threads : parallel_worker_spawn(w)
    \/ \E w \in DOMAIN threads : parallel_worker_spawn_fails(w)
    \/ \E w \in DOMAIN threads : parallel_worker_track(w)
    \/ \E w \in DOMAIN threads, text \in LineTexts : parallel_worker_read_line(w, text)
    \/ \E w \in DOMAIN threads : parallel_worker_eof(w)
    \/ \E entry \in UrlEntries, types \in TypeSelections : basic_run_scrape(entry, types)
    \/ basic_poll_queue
    \/ \E w \in DOMAIN threads : basic_worker_spawn(w)
    \/ \E w \in DOMAIN threads : basic_worker_spawn_fails(w)
    \/ \E w \in DOMAIN threads, text \in LineTexts : basic_worker_read_line(w, text)
    \/ \E w \in DOMAIN threads : basic_worker_eof(w)

Spec == Init /\ [][Next]_vars

\* A child that got a termination request exits and closes its output.
ChildTerminated(w) ==
    /\ w \in DOMAIN threads /\ threads[w].term
    /\ (worker_eof(w) \/ parallel_worker_eof(w) \/ basic_worker_eof(w))

\* A started thread runs up to the point where it waits for its child.
ThreadRuns(w) ==
    /\ w \in DOMAIN threads
    /\ \/ worker_spawn(w) \/ worker_spawn_fails(w) \/ worker_set_proc(w)
       \/ parallel_worker_spawn(w) \/ parallel_worker_spawn_fails(w)
       \/ parallel_worker_track(w)
       \/ basic_worker_spawn(w) \/ basic_worker_spawn_fails(w)

\* The UI timer keeps firing, the event loop keeps serving callbacks and the
\* running handler, every started thread is scheduled and a terminated child
\* exits; a child that nobody terminates may stay silent and never exit.
Fairness ==
    /\ WF_vars(poll_queue) /\ WF_vars(poll_queue_parallel) /\ WF_vars(basic_poll_queue)
    /\ WF_vars(after_callbacks) /\ WF_vars(do_stop_terminate)
    /\ \A w \in 1..MaxThreads : WF_vars(ThreadRuns(w)) /\ WF_vars(ChildTerminated(w))

FairSpec == Spec /\ Fairness

\* ------------------------------------------------------ the command builder
KiB == 1024
MiB == 1024 * 1024

\* Image size presets (bytes).
SIZE_SMALL_MAX == 100 * 1024
SIZE_MEDIUM_MIN == 100 * 1024
SIZE_MEDIUM_MAX == 1024 * 1024
SIZE_LARGE_MIN == 1024 * 1024

\* highs.append(None): no upper bound.
None == 0 - 1

\* _size_to_arg(n): the number and the suffix of the returned string.
size_to_arg(n) ==
    IF n >= MiB THEN [ num |-> n \div MiB, unit |-> "m" ]
    ELSE IF n >= KiB THEN [ num |-> n \div KiB, unit |-> "k" ]
    ELSE [ num |-> n, unit |-> "" ]

\* The string _size_to_arg returns: f"{num}{unit}".
SizeText(a) == ToString(a.num) \o a.unit

\* The byte count a size argument stands for (k = x1024, m = x1048576).
SizeBytes(a) ==
    a.num * (IF a.unit = "m" THEN MiB ELSE IF a.unit = "k" THEN KiB ELSE 1)

SeqMin(q) == CHOOSE x \in Range(q) : \A y \in Range(q) : x <= y
SeqMax(q) == CHOOSE x \in Range(q) : \A y \in Range(q) : x >= y

\* Faulty variant: Large is given its lower bound as upper bound instead of
\* None, so a selection with Large still emits a maximum.
image_size_args_large_bounded(small, medium, large) ==
    LET lows == (IF small THEN <<0>> ELSE <<>>)
                  \o (IF medium THEN <<SIZE_MEDIUM_MIN>> ELSE <<>>)
                  \o (IF large THEN <<SIZE_LARGE_MIN>> ELSE <<>>)
        highs == (IF small THEN <<SIZE_SMALL_MAX>> ELSE <<>>)
                   \o (IF medium THEN <<SIZE_MEDIUM_MAX>> ELSE <<>>)
                   \o (IF large THEN <<SIZE_LARGE_MIN>> ELSE <<>>)
        low == SeqMin(lows)
        high == SeqMax(highs)
    IN  IF lows = <<>> THEN <<>>
        ELSE (IF low > 0 THEN <<"--min-image-size", SizeText(size_to_arg(low))>> ELSE <<>>)
               \o <<"--max-image-size", SizeText(size_to_arg(high))>>

\* _image_size_args(small, medium, large)
image_size_args(small, medium, large) ==
    LET lows == (IF small THEN <<0>> ELSE <<>>)
                  \o (IF medium THEN <<SIZE_MEDIUM_MIN>> ELSE <<>>)
                  \o (IF large THEN <<SIZE_LARGE_MIN>> ELSE <<>>)
        highs == (IF small THEN <<SIZE_SMALL_MAX>> ELSE <<>>)
                   \o (IF medium THEN <<SIZE_MEDIUM_MAX>> ELSE <<>>)
                   \o (IF large THEN <<None>> ELSE <<>>)
        low == SeqMin(lows)
        high == IF None \in Range(highs) THEN None
                ELSE SeqMax(SelectSeq(highs, LAMBDA h : h # None))
    IN  IF lows = <<>> THEN <<>>
        ELSE (IF low > 0 THEN <<"--min-image-size", SizeText(size_to_arg(low))>> ELSE <<>>)
               \o (IF high # None THEN <<"--max-image-size", SizeText(size_to_arg(high))>>
                   ELSE <<>>)

\* selected_types, in the order the code appends them.
selected_types(w) ==
    (IF w.type_pdf THEN <<"pdf">> ELSE <<>>)
      \o (IF w.type_text THEN <<"text">> ELSE <<>>)
      \o (IF w.type_images THEN <<"images">> ELSE <<>>)

\* Faulty variant: the full selection is passed as a filter too.
types_args_full_too(sel) == IF sel # <<>> THEN <<"--types">> \o sel ELSE <<>>

\* types_args = ["--types"] + selected_types if selected_types and
\* len(selected_types) < 3 else []
types_args(sel) == IF sel # <<>> /\ Len(sel) < 3 THEN <<"--types">> \o sel ELSE <<>>

\* Faulty variant: the upper limit is missing.
ClampWorkers_no_upper(n) == IF n < 1 THEN 1 ELSE n

\* max(1, min(12, w))
ClampWorkers(n) == IF n < 1 THEN 1 ELSE IF n > 12 THEN 12 ELSE n

\* try: w = int(workers_var.get()); [--workers, str(max(1, min(12, w)))]
\* except (ValueError, tk.TclError): pass
workers_args(entry) ==
    IF entry.ok THEN <<"--workers", ToString(ClampWorkers(entry.n))>> ELSE <<>>

\* The crawl part of common_args (strigil).
crawl_args(w) ==
    IF w.crawl
    THEN <<"--crawl", "--max-depth", ToString(w.depth)>>
           \o workers_args(w.workers)
           \o (IF w.same_domain THEN <<"--same-domain-only">> ELSE <<>>)
    ELSE <<>>

\* The crawl part of the basic scraper's command: it has no workers widget.
basic_crawl_args(w) ==
    IF w.crawl
    THEN <<"--crawl", "--max-depth", ToString(w.depth)>>
           \o (IF w.same_domain THEN <<"--same-domain-only">> ELSE <<>>)
    ELSE <<>>

\* url_opt = flaresolverr_url_var.get().strip();
\* ["--flaresolverr", url_opt] if url_opt else ["--flaresolverr"]
flaresolverr_args(w) ==
    IF ~w.flaresolverr THEN <<>>
    ELSE IF Strip(w.flaresolverr_url) # <<>>
         THEN <<"--flaresolverr", Text(Strip(w.flaresolverr_url))>>
         ELSE <<"--flaresolverr">>

\* common_args of run_scrape (strigil).
common_args(w) ==
    <<"strigil">>
      \o image_size_args(w.size_small, w.size_medium, w.size_large)
      \o (IF w.js THEN <<"--js">> ELSE <<>>)
      \o flaresolverr_args(w)
      \o crawl_args(w)
      \o (IF w.keep_awake THEN <<"--keep-awake">> ELSE <<>>)

\* Faulty variant: several URLs always run in parallel, whatever the mode.
RunParallel_any_mode(mode, urls) == Len(urls) > 1

\* run_parallel = urls_mode_var.get() == "parallel" and len(urls) > 1
RunParallel(mode, urls) == mode = "parallel" /\ Len(urls) > 1

\* The locals of run_scrape that build_cmd and the branches read, computed
\* from the widgets when Scrape is clicked (read, the widget values at the
\* click, is bookkeeping that no operation reads).
Snapshot(w) ==
    [ started |-> TRUE,
      read |-> w,
      urls |-> ParseUrls(w.url_text),
      run_parallel |-> RunParallel(w.urls_mode, ParseUrls(w.url_text)),
      common_args |-> common_args(w),
      types_args |-> types_args(selected_types(w)),
      done_script |-> Text(Strip(w.done_script)),
      out_dir |-> "output",
      delay |-> "0.5" ]

\* Faulty variant: build_cmd reads the widgets again when it is called.
Closure_live(captured, live) == live

\* The variables build_cmd closes over: the locals of the run_scrape call that
\* defined it; the widgets are not read again.
Closure(captured, live) == captured

\* Faulty variant: the type filter is put in front of the URLs.
build_cmd_types_first(c, url_list, include_done_script) ==
    c.common_args \o c.types_args \o <<"--url">>
      \o [ i \in 1..Len(url_list) |-> Text(url_list[i]) ]
      \o <<"--out-dir", c.out_dir, "--delay", c.delay>>
      \o (IF include_done_script /\ c.done_script # ""
          THEN <<"--done-script", c.done_script>> ELSE <<>>)

\* build_cmd(url_list, include_done_script)
build_cmd(c, url_list, include_done_script) ==
    c.common_args \o <<"--url">> \o [ i \in 1..Len(url_list) |-> Text(url_list[i]) ]
      \o <<"--out-dir", c.out_dir, "--delay", c.delay>> \o c.types_args
      \o (IF include_done_script /\ c.done_script # ""
          THEN <<"--done-script", c.done_script>> ELSE <<>>)

\* url = url_var.get().strip(): the basic scraper's URL entry holds one line.
url_entry(w) == IF w.url_text = <<>> THEN <<>> ELSE Strip(w.url_text[1])

\* cmd of the basic scraper's run_scrape.
basic_cmd(w) ==
    <<"scrape", "--url", Text(url_entry(w))>>
      \o <<"--out-dir", "output", "--delay", "1.0">>
      \o types_args(selected_types(w))
      \o image_size_args(w.size_small, w.size_medium, w.size_large)
      \o basic_crawl_args(w)

\* ------------------------------------------- building the commands of a run
\* The widgets of the basic scraper: it has no URL list mode, no JS, workers,
\* keep-awake or done-script widget.
BasicFields == { "url_text", "type_pdf", "type_text", "type_images", "size_small",
                 "size_medium", "size_large", "crawl", "depth", "same_domain" }
Fields == IF app = "basic" THEN BasicFields ELSE DOMAIN DefaultWidgets

\* The user changes one configuration widget; nothing disables the widgets
\* while a run is in progress.
edit_widget(field, value) ==
    /\ edits < MaxEdits
    /\ field \in Fields /\ value # widgets[field]
    /\ widgets' = [widgets EXCEPT ![field] = value]
    /\ edits' = edits + 1
    /\ UNCHANGED << gui_vars, snapshot, launched, size_arg, deps >>

\* A started worker: its thread, the command it has built (<<>>: not yet), the
\* number of widget changes before it built it (bookkeeping) and the events it
\* has enqueued.
Launch(thread, cmd) ==
    [ thread |-> thread, cmd |-> cmd, built_at |-> edits, events |-> <<>> ]

\* Faulty variant: every parallel worker is given the index of the first URL.
LaunchParallel_same_index(urls) ==
    [ i \in 1..Len(urls) |-> Launch(NewThread(1, "par", 1, Len(urls)), <<>>) ]

\* threading.Thread(target=parallel_worker, args=(i, u)).start() for every URL.
LaunchParallel(urls) ==
    [ i \in 1..Len(urls) |-> Launch(NewThread(1, "par", i, Len(urls)), <<>>) ]

\* cmd = build_cmd(urls, include_done_script=True);
\* threading.Thread(target=worker).start()
LaunchSequential(c) ==
    << Launch(NewThread(1, "seq", 1, 0), build_cmd(c, c.urls, TRUE)) >>

\* run_scrape (strigil) with a URL and a type: the configuration is read from
\* the widgets into locals, then the workers of the chosen branch are started.
run_scrape_config ==
    /\ app = "strigil" /\ ~snapshot.started
    /\ ParseUrls(widgets.url_text) # <<>> /\ selected_types(widgets) # <<>>
    /\ snapshot' = Snapshot(widgets)
    /\ launched' = IF snapshot'.run_parallel THEN LaunchParallel(snapshot'.urls)
                                             ELSE LaunchSequential(snapshot')
    /\ UNCHANGED << gui_vars, widgets, edits, size_arg, deps >>

\* parallel_worker(idx, url): cmd = build_cmd([url])
parallel_worker_build(i) ==
    /\ i \in DOMAIN launched
    /\ launched[i].thread.kind = "par" /\ launched[i].cmd = <<>>
    /\ launched' = [launched EXCEPT
                      ![i].cmd = build_cmd(Closure(snapshot, Snapshot(widgets)),
                                           <<snapshot.urls[i]>>, FALSE),
                      ![i].built_at = edits]
    /\ UNCHANGED << gui_vars, widgets, snapshot, edits, size_arg, deps >>

\* A worker that has its command enqueues its first event: a line of its child
\* (text), or the error line when subprocess.Popen raised (ErrorText).
worker_event(i, text) ==
    /\ i \in DOMAIN launched
    /\ launched[i].cmd # <<>> /\ launched[i].events = <<>>
    /\ launched' = [launched EXCEPT
                      ![i].events = << Line(i, 1, 1, Prefix(launched[i].thread), text) >>]
    /\ UNCHANGED << gui_vars, widgets, snapshot, edits, size_arg, deps >>

\* run_scrape (basic scraper) with a URL and a type: one command, one worker.
basic_run_scrape_config ==
    /\ app = "basic" /\ ~snapshot.started
    /\ url_entry(widgets) # <<>> /\ selected_types(widgets) # <<>>
    /\ snapshot' = [NoSnapshot EXCEPT !.started = TRUE, !.read = widgets,
                                      !.urls = << url_entry(widgets) >>]
    /\ launched' = << Launch(NewThread(1, "basic", 1, 0), basic_cmd(widgets)) >>
    /\ UNCHANGED << gui_vars, widgets, edits, size_arg, deps >>

BuildNext ==
    \/ \E field \in DOMAIN DefaultWidgets :
          \E value \in WidgetValues(field) : edit_widget(field, value)
    \/ run_scrape_config
    \/ \E i \in 1..MaxUrls : parallel_worker_build(i)
    \/ \E i \in 1..MaxUrls, text \in { {"Found:"}, ErrorText } : worker_event(i, text)
    \/ basic_run_scrape_config

\* The command building of both front-ends under any widget changes.
BuildSpec == Init /\ [][BuildNext]_vars

\* ---------------------------------------------------------- size formatting
\* Byte counts: every count up to MaxSize, and around MaxSize multiples of
\* 1 KiB and a few multiples of 1 MiB.
SizeInputs ==
    (0..MaxSize)
      \cup { k * KiB + d : k \in 1..MaxSize, d \in {0, 1} }
      \cup { k * MiB + d : k \in 1..(MaxSize \div 100), d \in {0, 1, KiB} }

\* _size_to_arg(n) is called; the function keeps no state, so one call per
\* behaviour shows all it can do.
size_to_arg_call(n) ==
    /\ size_arg = NoSizeArg
    /\ size_arg' = [ n |-> n, arg |-> size_to_arg(n) ]
    /\ UNCHANGED << gui_vars, widgets, snapshot, launched, edits, deps >>

SizeNext == \E n \in SizeInputs : size_to_arg_call(n)

SizeSpec == Init /\ [][SizeNext]_vars

\* ----------------------------------------------------- the dependency check
\* REQUIRED: the pip names of the mandatory libraries.
REQUIRED == {"httpx", "beautifulsoup4", "lxml"}

\* Values of the environment variable BASIC_SCRAPER_AUTO_INSTALL_DEPS; "" is
\* also what os.environ.get(AUTO_INSTALL_ENV, "") gives when it is unset.
EnvValues == {"", "0", "1", "true", "TRUE", "Yes", "on"}

\* Faulty variant: the value is compared as it is written.
Lower_as_written(v) == v

\* str.lower() on the values of EnvValues.
Lower(v) == IF v = "TRUE" THEN "true" ELSE IF v = "Yes" THEN "yes" ELSE v

\* How subprocess.run(cmd, check=True) of pip ends: it returns, or raises
\* CalledProcessError, FileNotFoundError or another OSError.
PipOutcomes == {"installed", "CalledProcessError", "FileNotFoundError", "PermissionError"}

\* missing = [pip_name for mod_name, pip_name in REQUIRED if not _import(mod_name)]
Missing(importable) == REQUIRED \ importable

\* check_required() up to the point where it returns, exits or waits for pip:
\* return True without missing libraries; with missing ones
\* _try_auto_install returns False unless the variable is 1/true/yes, and
\* check_required prints the instructions and calls sys.exit(1).
check_required(importable, env) ==
    /\ app = "basic" /\ deps = NoDeps
    /\ deps' = IF Missing(importable) = {}
               THEN [ pc |-> "returned", importable |-> importable, env |-> env,
                      pip |-> "none", status |-> 0 - 1 ]
               ELSE IF Lower(env) \notin {"1", "true", "yes"}
                    THEN [ pc |-> "exited", importable |-> importable, env |-> env,
                           pip |-> "none", status |-> 1 ]
                    ELSE [ pc |-> "pip", importable |-> importable, env |-> env,
                           pip |-> "running", status |-> 0 - 1 ]
    /\ UNCHANGED << gui_vars, widgets, snapshot, launched, edits, size_arg >>

\* _try_auto_install: subprocess.run(cmd, check=True) ends.  sys.exit(0) when
\* it returned, sys.exit(1) in the except clause; an exception the clause does
\* not name leaves check_required and main() and ends the interpreter with
\* status 1.
try_auto_install_ends(outcome) ==
    /\ deps.pc = "pip"
    /\ deps' = [deps EXCEPT !.pc = IF outcome = "PermissionError" THEN "raised" ELSE "exited",
                            !.pip = outcome,
                            !.status = IF outcome = "installed" THEN 0 ELSE 1]
    /\ UNCHANGED << gui_vars, widgets, snapshot, launched, edits, size_arg >>

DepsNext ==
    \/ \E importable \in SUBSET REQUIRED, env \in EnvValues : check_required(importable, env)
    \/ \E outcome \in PipOutcomes : try_auto_install_ends(outcome)

DepsSpec == Init /\ [][DepsNext]_vars

\* ------------------------------------------------- the progress interpreter
\* Lines given to update_status: the markers of the child's text, with the
\* "[i/N] " prefix of a parallel worker or without.  A progress counter
\* "  [3/7] " holds "  [", "/" and "] "; a path may hold them without being
\* a counter.
StatusLines ==
    { [ prefix |-> <<>>, text |-> t ] :
        t \in { {}, {"Running:"}, {"Found:"}, {"-> Downloading"},
                {"  [", "/", "] ", "  [3/7]"},
                {"  Text:"}, {"  Image:"}, {"  PDF:"}, {"Done."},
                {"Found:", "Done."}, {"  Text:", "  PDF:"},
                {"  [", "/", "] ", "  Text:"} } }
      \cup { [ prefix |-> <<1, 2>>, text |-> t ] : t \in { {"  Image:"}, {"  [", "  PDF:"} } }

\* run_scrape, lines 349-352: state_var.set("Running"); progress_var.set("-");
\* scrape_counts = [0, 0, 0].  A further run starts after a line of this one.
run_scrape_status ==
    /\ app = "strigil" /\ Len(log_text) < MaxLines
    /\ run.id = 0 \/ (log_text # <<>> /\ log_text[Len(log_text)].run = run.id)
    /\ state_var' = "Running"
    /\ progress_var' = "-"
    /\ run' = NewRun("seq", 0, FALSE)
    /\ UNCHANGED << app, output_queue, current_proc, current_procs, scrape_btn, stop_btn,
                    log_text, after_queue, poll_timer, threads, stop_call, config_vars >>

\* lambda l=line: (append_log(l), update_status(l)) runs for a line of the run.
update_status_call(l) ==
    /\ app = "strigil" /\ run.id > 0 /\ Len(log_text) < MaxLines
    /\ LET ev == Line(1, run.id, Len(log_text) + 1, l.prefix, l.text)
           u == RunCallback(LineCallback(ev),
                    [ log |-> log_text, state |-> state_var, progress |-> progress_var,
                      counts |-> run.scrape_counts ])
       IN  /\ log_text' = u.log
           /\ state_var' = u.state
           /\ progress_var' = u.progress
           /\ run' = [run EXCEPT !.scrape_counts = u.counts]
    /\ UNCHANGED << app, output_queue, current_proc, current_procs, scrape_btn, stop_btn,
                    after_queue, poll_timer, threads, stop_call, config_vars >>

StatusNext ==
    \/ run_scrape_status
    \/ \E l \in StatusLines : update_status_call(l)

StatusSpec == Init /\ [][StatusNext]_vars

\* ------------------------------------------------------------ observations
\* Number of None items in a queue.
NumNones(q) == Cardinality({ i \in 1..Len(q) : q[i].kind = "None" })

\* Number of lines of worker w that the log shows.
Logged(w) == Cardinality({ i \in 1..Len(log_text) : log_text[i].src = w })

\* The last line of the log is e.
LastLogged(e) == log_text # <<>> /\ log_text[Len(log_text)] = e

\* A Stop click of the current run sent a termination request to a child of it.
StopSent == \E w \in DOMAIN threads : threads[w].run = run.id /\ threads[w].term

\* Contents of the URL box and of the URL entry with no non-blank line.
BlankTexts == { text \in UrlTexts : ParseUrls(text) = <<>> }
BlankEntries == { entry \in UrlEntries : Strip(entry) = <<>> }

\* Scrape is clicked with no non-blank URL (either front-end).
ScrapeNoUrl ==
    \/ \E text \in BlankTexts, mode \in UrlsModes, types \in TypeSelections,
          script \in BOOLEAN : run_scrape(text, mode, types, script)
    \/ \E entry \in BlankEntries, types \in TypeSelections : basic_run_scrape(entry, types)

\* Scrape is clicked with a URL and no content type ticked (either front-end).
ScrapeNoType ==
    \/ \E text \in UrlTexts \ BlankTexts, mode \in UrlsModes, script \in BOOLEAN :
          run_scrape(text, mode, {}, script)
    \/ \E entry \in UrlEntries \ BlankEntries : basic_run_scrape(entry, {})

\* ------------------------------------------------------------------ claims
\* C1: in parallel mode with N URLs the run is reported complete (the poll is
\* no longer rescheduled) if and only if the poll has consumed exactly N
\* sentinels enqueued by the N workers of that run, whatever runs and Stop
\* clicks came before.
C1_CompleteIffOwnSentinels ==
    run.mode = "par" => ((poll_timer = "none") <=> (run.own_done = run.num_urls))

\* C2: every worker thread enqueues exactly one None, after every line it
\* enqueues, whether its child closed its output or spawning it raised; when
\* spawning raised, exactly one error line precedes the None.
C2_OneSentinelAfterLines ==
    /\ \A w \in DOMAIN threads :
          /\ threads[w].nones <= 1
          /\ threads[w].late = 0
          /\ (threads[w].pc = "done") <=> (threads[w].nones = 1)
          /\ threads[w].errors <= 1
          /\ (threads[w].errors = 1) => (threads[w].lines = 0 /\ threads[w].nones = 1)
    /\ \A i, j \in 1..Len(output_queue) :
          (i < j /\ output_queue[i].kind = "None" /\ output_queue[i].src # 0)
             => output_queue[j].src # output_queue[i].src

\* A parallel run in which one worker failed to spawn its child and another
\* read a line from its child, both having finished.
C2_Witness ==
    /\ \E w \in DOMAIN threads :
          threads[w].pc = "done" /\ threads[w].errors = 1 /\ threads[w].nones = 1
    /\ \E w \in DOMAIN threads :
          threads[w].pc = "done" /\ threads[w].lines >= 1 /\ threads[w].nones = 1

\* C3: in sequential mode, once Stop is clicked on a run whose child is
\* running, the poll eventually consumes a sentinel, stops rescheduling itself
\* and Scrape is enabled again, even if the child prints nothing more.
C3_StopEventuallyCompletes ==
    (run.mode = "seq" /\ run.stop_live)
       ~> (run.reported /\ poll_timer = "none" /\ scrape_btn = "normal")

\* C4: a second Stop on a run already stopped (an earlier Stop returned and
\* its termination request reached the child) raises nothing and changes
\* nothing: the sequential handle, the number of sentinels in the queue and
\* the displayed state are what the first Stop left.
C4_SecondStopNoEffect ==
    [][ (run.stops >= 1 /\ StopSent /\ (do_stop_begin \/ do_stop_terminate))
           => /\ NumNones(output_queue') = NumNones(output_queue)
              /\ current_proc' = current_proc
              /\ ~stop_call'.raised
              /\ (stop_call'.pc = "idle" => state_var' = "Stopped") ]_vars

\* C5: a cancelled run (Stop was clicked and its termination request reached
\* the child) never ends as "Running" or "Finished": when it is reported
\* complete the displayed state is none of the two, whatever lines were
\* queued when Stop was clicked.
C5_CancelledRunEndsStopped ==
    (run.stops >= 1 /\ StopSent /\ run.reported) => state_var \notin {"Running", "Finished"}

\* C6: Stop sends a termination request to every handle tracked when it was
\* clicked and returns without raising, in every interleaving with the workers.
C6_StopTerminatesEveryTracked ==
    stop_call.missed = {} /\ ~stop_call.raised

\* C7: the lines of one child appear in the log in the order in which the
\* child produced them, in sequential and in parallel mode.
C7_PerSourceOrder ==
    \A i, j \in 1..Len(log_text) :
       (i < j /\ log_text[i].src # 0 /\ log_text[i].src = log_text[j].src)
          => log_text[i].n < log_text[j].n

\* The log shows two lines of one child.
C7_Witness ==
    \E i, j \in 1..Len(log_text) :
       i < j /\ log_text[i].src # 0 /\ log_text[i].src = log_text[j].src

\* C8: when a run is reported complete, every line that a worker of the run
\* enqueued is in the log, exactly once (here for runs nobody stopped).
C8_EveryLineLoggedBeforeComplete ==
    (run.reported /\ run.stops = 0)
       => \A w \in DOMAIN threads :
             threads[w].run = run.id => Logged(w) = threads[w].lines + threads[w].errors

\* C9: Scrape with no non-blank URL creates no thread and no child, appends
\* exactly one validation-error line, and leaves the state, the progress text,
\* both buttons, the tracked handles and the queue as they were.
C9_NoUrlRejected ==
    [][ ScrapeNoUrl
           => /\ log_text' = Append(log_text, IF app = "strigil" THEN UrlRequired
                                                                 ELSE BasicUrlRequired)
              /\ UNCHANGED << threads, state_var, progress_var, scrape_btn, stop_btn,
                              current_proc, current_procs, output_queue, after_queue,
                              poll_timer >> ]_vars

\* After a finished run, Scrape was clicked with no URL and rejected.
C9_Witness ==
    /\ LastLogged(UrlRequired) \/ LastLogged(BasicUrlRequired)
    /\ run.reported /\ threads # <<>>

\* C10: Scrape with a URL but no content type starts no run: no thread and no
\* child, exactly one validation-error line, and on return Scrape is enabled
\* and the state (strigil) is "Idle".
C10_NoTypeRejected ==
    [][ ScrapeNoType
           => /\ log_text' = Append(log_text, TypeRequired)
              /\ scrape_btn' = "normal"
              /\ (app = "strigil" => state_var' = "Idle")
              /\ UNCHANGED << threads, current_proc, current_procs, output_queue,
                              after_queue, poll_timer >> ]_vars

\* After a stopped run, Scrape was clicked with a URL and no type: rejected,
\* the state went back to "Idle".
C10_Witness ==
    /\ LastLogged(TypeRequired) /\ scrape_btn = "normal"
    /\ app = "strigil" /\ state_var = "Idle" /\ run.stops >= 1

\* The steps whose writes to the tracked handles are made inside
\* "with procs_lock:" (parallel_worker's append, do_stop's copy and clear).
UnderProcsLock ==
    \/ do_stop_begin
    \/ \E w \in DOMAIN threads : parallel_worker_track(w)

\* C13: the done script is run at most once per run, only in a parallel run
\* with a non-blank template and only after the poll has consumed the
\* sentinels of all N workers of that run; a run reported complete with a
\* template has run it; with a blank template it is never run.
C13_DoneScriptOnceAfterAllJobs ==
    /\ run.scripts <= 1
    /\ (run.scripts = 1)
          => (run.mode = "par" /\ run.done_script /\ run.own_done = run.num_urls)
    /\ (run.mode = "par" /\ run.done_script /\ run.reported) => run.scripts = 1

\* C14: every step that changes a tracked handle (current_procs or
\* current_proc[0]) makes the change while holding procs_lock.
C14_HandlesMutatedUnderLock ==
    [][ (current_proc' # current_proc \/ current_procs' # current_procs)
           => UnderProcsLock ]_vars

\* C15: the UI thread is never suspended in a blocking call: it never waits
\* for the queue, for a child, for a terminated process or for the done
\* script to finish.
C15_UiThreadNeverWaits ==
    ~run.script_running

\* ------------------------------------------------- reading a built command
\* Position of the first token equal to flag in cmd; 0 when there is none.
ArgIndex(cmd, flag) ==
    IF \E i \in 1..Len(cmd) : cmd[i] = flag
    THEN CHOOSE i \in 1..Len(cmd) : cmd[i] = flag /\ \A j \in 1..(i - 1) : cmd[j] # flag
    ELSE 0

HasArg(cmd, flag) == ArgIndex(cmd, flag) # 0

\* The token after flag.
ArgValue(cmd, flag) == cmd[ArgIndex(cmd, flag) + 1]

\* The URLs of a command: the tokens between "--url" and "--out-dir".
UrlsOf(cmd) == SubSeq(cmd, ArgIndex(cmd, "--url") + 1, ArgIndex(cmd, "--out-dir") - 1)

\* The URLs of the run as argv tokens, in the entered order.
UrlTokens(urls) == [ i \in 1..Len(urls) |-> Text(urls[i]) ]

\* Every event worker i has enqueued carries the prefix.
EventsCarry(i, prefix) ==
    \A k \in 1..Len(launched[i].events) : launched[i].events[k].prefix = prefix

\* C11: a run in parallel mode with N > 1 URLs starts exactly N workers, one
\* per URL; the command of the worker at position i holds only the i-th URL,
\* and every event of that worker, output line or spawn-failure line, carries
\* the prefix [i/N].
C11_ParallelOneWorkerPerUrl ==
    (snapshot.started /\ snapshot.read.urls_mode = "parallel" /\ Len(snapshot.urls) > 1)
       => /\ Len(launched) = Len(snapshot.urls)
          /\ \A i \in 1..Len(launched) :
                /\ launched[i].thread.kind = "par"
                /\ launched[i].cmd # <<>>
                      => UrlsOf(launched[i].cmd) = << Text(snapshot.urls[i]) >>
                /\ EventsCarry(i, <<i, Len(snapshot.urls)>>)

\* A parallel run of two different URLs: both workers built their command,
\* one printed a line, spawning the other's child failed.
C11_Witness ==
    /\ snapshot.started /\ snapshot.read.urls_mode = "parallel"
    /\ Len(snapshot.urls) = 2 /\ snapshot.urls[1] # snapshot.urls[2]
    /\ Len(launched) = 2
    /\ launched[1].events # <<>> /\ launched[1].events[1].text # ErrorText
    /\ launched[2].events # <<>> /\ launched[2].events[1].text = ErrorText

\* C12: a run in sequential mode, or with exactly one URL in either mode,
\* builds exactly one command that holds all URLs in the entered order and
\* starts exactly one worker, whose events carry no prefix.
C12_SequentialOneCommand ==
    (snapshot.started /\ (snapshot.read.urls_mode = "sequential" \/ Len(snapshot.urls) = 1))
       => /\ Len(launched) = 1
          /\ UrlsOf(launched[1].cmd) = UrlTokens(snapshot.urls)
          /\ EventsCarry(1, <<>>)

\* A sequential run of two different URLs whose worker enqueued an event.
C12_Witness ==
    /\ snapshot.started /\ snapshot.read.urls_mode = "sequential"
    /\ Len(snapshot.urls) = 2 /\ snapshot.urls[1] # snapshot.urls[2]
    /\ Len(launched) = 1 /\ launched[1].events # <<>>

\* The commands built so far.
Built == { i \in 1..Len(launched) : launched[i].cmd # <<>> }

\* All values of the three checkboxes of a group.
Ticks == [ a : BOOLEAN, b : BOOLEAN, c : BOOLEAN ]

\* The size arguments of cmd are the collapsed union of the ticked ranges:
\* a minimum unless Small is ticked or nothing above it is, "100k" with Medium
\* and "1m" otherwise; a maximum unless Large is ticked or nothing below it is,
\* "1m" with Medium and "100k" otherwise.
UnionInterval(cmd, small, medium, large) ==
    /\ HasArg(cmd, "--min-image-size") <=> (~small /\ (medium \/ large))
    /\ HasArg(cmd, "--min-image-size")
          => ArgValue(cmd, "--min-image-size") = (IF medium THEN "100k" ELSE "1m")
    /\ HasArg(cmd, "--max-image-size") <=> (~large /\ (small \/ medium))
    /\ HasArg(cmd, "--max-image-size")
          => ArgValue(cmd, "--max-image-size") = (IF medium THEN "1m" ELSE "100k")

\* C16: for each of the 8 subsets of the size checkboxes the size arguments
\* are the collapsed union interval, as the function returns them and in every
\* command either front-end builds.
C16_SizeArgsAreUnionInterval ==
    /\ \A t \in Ticks :
          /\ UnionInterval(image_size_args(t.a, t.b, t.c), t.a, t.b, t.c)
          /\ (~t.a /\ ~t.b /\ ~t.c) => image_size_args(t.a, t.b, t.c) = <<>>
    /\ \A i \in Built :
          UnionInterval(launched[i].cmd, snapshot.read.size_small,
                        snapshot.read.size_medium, snapshot.read.size_large)

\* A command built with Medium only: min 100k and max 1m.
C16_Witness ==
    \E i \in Built :
       /\ ~snapshot.read.size_small /\ snapshot.read.size_medium /\ ~snapshot.read.size_large
       /\ ArgValue(launched[i].cmd, "--min-image-size") = "100k"
       /\ ArgValue(launched[i].cmd, "--max-image-size") = "1m"

\* C17: _size_to_arg(n) is n / 1 MiB with "m" for a positive multiple of
\* 1 MiB, else n / 1 KiB with "k" for a positive multiple of 1 KiB, else the
\* digits of n, so that reading the result back gives exactly n.
C17_SizeArgReadsBack ==
    LET n == size_arg.n
        expected == IF n > 0 /\ n % MiB = 0 THEN [ num |-> n \div MiB, unit |-> "m" ]
                    ELSE IF n > 0 /\ n % KiB = 0 THEN [ num |-> n \div KiB, unit |-> "k" ]
                    ELSE [ num |-> n, unit |-> "" ]
    IN  /\ size_arg.arg = expected
        /\ SizeBytes(size_arg.arg) = n

\* The content types ticked in w.
TypeSet(w) ==
    (IF w.type_pdf THEN {"pdf"} ELSE {})
      \cup (IF w.type_text THEN {"text"} ELSE {})
      \cup (IF w.type_images THEN {"images"} ELSE {})

\* cmd holds "--types" followed by exactly the types of sel, if and only if
\* sel is a non-empty strict subset of the three types.
TypesFilter(cmd, sel) ==
    /\ HasArg(cmd, "--types") <=> (sel # {} /\ sel # ContentTypes)
    /\ HasArg(cmd, "--types")
          => LET k == ArgIndex(cmd, "--types")
                 n == Cardinality(sel)
             IN  /\ k + n <= Len(cmd)
                 /\ { cmd[j] : j \in (k + 1)..(k + n) } = sel
                 /\ (k + n < Len(cmd) => cmd[k + n + 1] \notin ContentTypes)

\* C18: "--types" followed by the selected types is emitted if and only if
\* the selection is a non-empty strict subset of pdf, text, images; with all
\* three ticked no command of the run holds "--types".
C18_TypesOnlyForStrictSubset ==
    /\ \A t \in Ticks :
          LET w == [DefaultWidgets EXCEPT !.type_pdf = t.a, !.type_text = t.b,
                                          !.type_images = t.c]
          IN  TypesFilter(types_args(selected_types(w)), TypeSet(w))
    /\ \A i \in Built : TypesFilter(launched[i].cmd, TypeSet(snapshot.read))

\* A command built with two of the three types ticked holds "--types".
C18_Witness ==
    \E i \in Built :
       /\ Cardinality(TypeSet(snapshot.read)) = 2
       /\ HasArg(launched[i].cmd, "--types")

\* A command without its URL tokens.
WithoutUrls(cmd) ==
    SubSeq(cmd, 1, ArgIndex(cmd, "--url")) \o SubSeq(cmd, ArgIndex(cmd, "--out-dir"), Len(cmd))

\* C19: the commands of a run are built from the configuration read when
\* Scrape was clicked and from nothing else: each per-URL command of a
\* parallel run is what build_cmd gives for the widget values of the click,
\* and any two of them differ only in the URL, whatever the user changed in
\* the widgets while the workers were building.
C19_BuiltFromCapturedConfig ==
    /\ \A i \in Built :
          launched[i].thread.kind = "par"
             => launched[i].cmd = build_cmd(Snapshot(snapshot.read), <<snapshot.urls[i]>>, FALSE)
    /\ \A i \in Built :
          launched[i].thread.kind = "seq"
             => launched[i].cmd = build_cmd(Snapshot(snapshot.read), snapshot.urls, TRUE)
    /\ \A i, j \in Built : WithoutUrls(launched[i].cmd) = WithoutUrls(launched[j].cmd)

\* Both commands of a parallel run are built, a widget that the command
\* depends on was changed between the two calls of build_cmd.
C19_Witness ==
    /\ Built = {1, 2}
    /\ launched[1].built_at # launched[2].built_at
    /\ common_args(widgets) # snapshot.common_args

\* What the crawl widgets of w make a command hold, but for "--workers".
CrawlFlags(cmd, w) ==
    /\ HasArg(cmd, "--crawl") <=> w.crawl
    /\ HasArg(cmd, "--max-depth") <=> w.crawl
    /\ w.crawl => ArgValue(cmd, "--max-depth") = ToString(w.depth)
    /\ HasArg(cmd, "--same-domain-only") <=> (w.crawl /\ w.same_domain)

\* The entered worker count clamped into [1,12], as a token.
Clamped(n) == IF n < 1 THEN "1" ELSE IF n > 12 THEN "12" ELSE ToString(n)

DocumentedOrder ==
    << "--min-image-size", "--max-image-size", "--types", "--js", "--flaresolverr",
       "--crawl", "--max-depth", "--workers", "--same-domain-only", "--keep-awake",
       "--url", "--out-dir", "--delay", "--done-script" >>

\* The order in which strigil's common_args and build_cmd put the flags.
StrigilOrder ==
    << "--min-image-size", "--max-image-size", "--js", "--flaresolverr",
       "--crawl", "--max-depth", "--workers", "--same-domain-only", "--keep-awake",
       "--url", "--out-dir", "--delay", "--types", "--done-script" >>

\* The order in which the basic scraper's run_scrape puts the flags.
BasicOrder ==
    << "--url", "--out-dir", "--delay", "--types", "--min-image-size", "--max-image-size",
       "--crawl", "--max-depth", "--same-domain-only" >>

\* The flags of cmd are flags of order, each at most once, in that order,
\* behind the binary.
InOrder(cmd, order) ==
    /\ cmd[1] \in {"strigil", "scrape"}
    /\ \A i \in 2..Len(cmd) :
          (cmd[i] \in Range(DocumentedOrder)) => cmd[i] \in Range(order)
    /\ \A a, b \in 1..Len(order) :
          (a < b /\ HasArg(cmd, order[a]) /\ HasArg(cmd, order[b]))
             => ArgIndex(cmd, order[a]) < ArgIndex(cmd, order[b])
    /\ \A i, j \in 1..Len(cmd) :
          (i < j /\ cmd[i] \in Range(DocumentedOrder)) => cmd[i] # cmd[j]

\* "--flaresolverr" is followed by the endpoint when the endpoint entry is
\* not blank and by the next flag otherwise; "--done-script" and its template
\* end the command.
EndpointAndScript(cmd, w) ==
    /\ HasArg(cmd, "--flaresolverr") <=> (app = "strigil" /\ w.flaresolverr)
    /\ HasArg(cmd, "--flaresolverr")
          => IF Strip(w.flaresolverr_url) # <<>>
             THEN ArgValue(cmd, "--flaresolverr") = Text(Strip(w.flaresolverr_url))
             ELSE ArgValue(cmd, "--flaresolverr") \in Range(DocumentedOrder)
    /\ HasArg(cmd, "--done-script") => ArgIndex(cmd, "--done-script") = Len(cmd) - 1

\* C21 as stated: every command lists its arguments in the order of the
\* documented invocation: binary, image sizes, "--types", "--js",
\* "--flaresolverr" (with the endpoint only when it is not blank), crawl flags,
\* "--keep-awake", "--url" with the URLs, "--out-dir", "--delay" and
\* "--done-script" last.
C21_DocumentedArgumentOrder ==
    \A i \in Built :
       /\ InOrder(launched[i].cmd, DocumentedOrder)
       /\ EndpointAndScript(launched[i].cmd, snapshot.read)

\* C21, amended: every strigil command lists binary, image sizes, "--js",
\* "--flaresolverr" (with the endpoint only when it is not blank), crawl flags,
\* "--keep-awake", "--url" with the URLs, "--out-dir", "--delay", "--types"
\* and "--done-script" last; every command of the basic scraper lists binary,
\* "--url", "--out-dir", "--delay", "--types", image sizes, crawl flags.
C21_CodeArgumentOrder ==
    \A i \in Built :
       /\ InOrder(launched[i].cmd, IF app = "basic" THEN BasicOrder ELSE StrigilOrder)
       /\ EndpointAndScript(launched[i].cmd, snapshot.read)

\* A strigil command with a type filter, a bare "--flaresolverr" and a done
\* script: "--types" stands behind "--delay", "--done-script" is last.
C21_Witness ==
    \E i \in Built :
       /\ HasArg(launched[i].cmd, "--types")
       /\ HasArg(launched[i].cmd, "--flaresolverr")
       /\ HasArg(launched[i].cmd, "--done-script")
       /\ ArgIndex(launched[i].cmd, "--delay") < ArgIndex(launched[i].cmd, "--types")

\* The documented rule a line triggers: the first in the priority order start,
\* discovery done, download beginning, "[i/n]" counter, text saved, image
\* saved, PDF saved, done marker; 0 when it matches none.
FirstRule(ev) ==
    LET m == Markers(ev) IN
    IF {"Running:", "Scrape:", "Iteration"} \cap m # {} THEN 1
    ELSE IF "Found:" \in m THEN 2
    ELSE IF "-> Downloading" \in m THEN 3
    ELSE IF "  [3/7]" \in m THEN 4
    ELSE IF "  Text:" \in m THEN 5
    ELSE IF "  Image:" \in m THEN 6
    ELSE IF "  PDF:" \in m THEN 7
    ELSE IF "Done." \in m THEN 8
    ELSE 0

\* What rule k does to state, phase and counters.
RuleEffect(k, st, pr, c) ==
    LET c2 == IF k = 5 THEN [c EXCEPT ![2] = @ + 1]
              ELSE IF k = 6 THEN [c EXCEPT ![3] = @ + 1]
              ELSE IF k = 7 THEN [c EXCEPT ![1] = @ + 1]
              ELSE c
    IN  CASE k = 0 -> [ state |-> st, progress |-> pr, counts |-> c ]
          [] k = 1 -> [ state |-> "Running", progress |-> "Starting...", counts |-> c ]
          [] k = 2 -> [ state |-> "Running", progress |-> "Mapping done - downloading...",
                        counts |-> c ]
          [] k = 3 -> [ state |-> "Running", progress |-> "Downloading...", counts |-> c ]
          [] k = 4 -> [ state |-> "Running", progress |-> "3/7 assets", counts |-> c ]
          [] k \in {5, 6, 7} -> [ state |-> "Running", progress |-> CountsMsg(c2),
                                  counts |-> c2 ]
          [] k = 8 -> [ state |-> "Finished", progress |-> CountsMsg(c), counts |-> c ]

\* C22: the progress interpreter applies to every consumed line the first
\* rule it matches in the priority order start, discovery done, download
\* beginning, "[i/n]" counter, text saved, image saved, PDF saved, done marker,
\* and only that rule; a line matching none leaves state, phase and counters
\* as they were.
C22_FirstMatchingRule ==
    [][ Len(log_text') = Len(log_text) + 1
          => LET ev == log_text'[Len(log_text')]
                 e == RuleEffect(FirstRule(ev), state_var, progress_var, run.scrape_counts)
             IN  /\ state_var' = e.state
                 /\ progress_var' = e.progress
                 /\ run'.scrape_counts = e.counts ]_vars

\* Number of consumed lines of the current run that trigger rule k.
Consumed(k) ==
    Cardinality({ i \in 1..Len(log_text) :
                    log_text[i].run = run.id /\ FirstRule(log_text[i]) = k })

\* C23: the counters (pdf, text, images) of a run equal the numbers of its
\* consumed lines that are a saved PDF, a saved text and a saved image (they
\* start at 0 with the run and grow by one per such line), and the phase after
\* such a line is "<pdf> PDFs, <text> texts, <images> images".
C23_CountersCountSavedLines ==
    /\ run.scrape_counts = << Consumed(7), Consumed(5), Consumed(6) >>
    /\ \A i \in 1..Len(log_text) :
          (i = Len(log_text) /\ log_text[i].run = run.id /\ FirstRule(log_text[i]) \in {5, 6, 7})
             => progress_var = CountsMsg(<< Consumed(7), Consumed(5), Consumed(6) >>)

\* The values of the variable that switch auto-install on.
AutoInstallValues == {"1", "true", "TRUE", "Yes"}

\* C24 as stated: check_required returns normally only when every required
\* library is importable; when one is missing it never returns and the process
\* ends with a non-zero exit status, whatever the auto-install variable holds
\* and however the install ends.
C24_MissingEndsNonZero ==
    /\ deps.pc = "returned" => Missing(deps.importable) = {}
    /\ deps.pc \in {"exited", "raised"} => deps.status # 0

\* C24, amended: check_required returns normally only when every required
\* library is importable; when one is missing it never returns and the process
\* ends: pip is run exactly when the auto-install variable, lowercased, is 1,
\* true or yes, the exit status is 0 when pip was run and succeeded and 1 in
\* every other case.
C24_MissingEndsProcess ==
    /\ deps.pc = "returned" <=> (deps # NoDeps /\ Missing(deps.importable) = {})
    /\ deps.pc \in {"pip", "exited", "raised"} => Missing(deps.importable) # {}
    /\ deps.pc \in {"exited", "raised"} =>
          /\ deps.pip # "none" <=> deps.env \in AutoInstallValues
          /\ deps.status = IF deps.pip = "installed" THEN 0 ELSE 1
    /\ deps.pc = "pip" => deps.env \in AutoInstallValues

\* Two libraries are missing, the variable is "TRUE", pip succeeded: the
\* process ended with status 0.
C24_Witness ==
    /\ deps.pc = "exited" /\ deps.importable = {"lxml"} /\ deps.env = "TRUE"
    /\ deps.pip = "installed" /\ deps.status = 0

\* C25: no event leaks between runs: when a run is reported complete the
\* queue is empty and no worker of the run is left that enqueues afterwards,
\* so the queue never holds an item of an earlier run.
C25_NoLeakBetweenRuns ==
    /\ run.reported
          => /\ output_queue = <<>>
             /\ \A w \in DOMAIN threads : threads[w].run = run.id => threads[w].pc = "done"
    /\ \A i \in 1..Len(output_queue) : output_queue[i].run = run.id

\* C26: Stop reaches every child of the active run in every interleaving:
\* once a Stop of the run has returned, no child of the run is running
\* without a termination request, whether Stop came before the child was
\* spawned or registered or after an earlier worker cleared the handle.
C26_StopReachesEveryChild ==
    (run.stops >= 1 /\ stop_call.pc = "idle")
       => \A w \in DOMAIN threads :
             (threads[w].run = run.id /\ threads[w].proc = "running") => threads[w].term

\* C27: at most one run is active: Scrape is enabled only when no worker
\* thread and no child of an earlier run is alive.
C27_ScrapeEnabledOnlyWhenIdle ==
    scrape_btn = "normal"
       => \A w \in DOMAIN threads : threads[w].pc = "done" /\ threads[w].proc # "running"

\* C28: a run that was never stopped does not stay "Running" after it ends:
\* when it is reported complete the displayed state is "Finished", whatever
\* the child printed, also when it failed to spawn or crashed.
C28_UnstoppedRunEndsFinished ==
    (app = "strigil" /\ run.reported /\ run.stops = 0) => state_var = "Finished"

\* The log shows a done-marker line of the current run that the progress
\* interpreter took as such.
DoneLogged ==
    \E i \in 1..Len(log_text) : log_text[i].run = run.id /\ FirstRule(log_text[i]) = 8

\* C29: "Finished" is displayed only for a finished run: in a parallel run
\* of N URLs never while fewer than N sentinels have been consumed, and once
\* a done marker of the run has set it no later line of the run puts
\* "Running" back.
C29_FinishedOnlyForFinishedRun ==
    /\ (run.mode = "par" /\ state_var = "Finished")
          => run.parallel_done_count >= run.num_urls
    /\ DoneLogged => state_var # "Running"

\* C30: the done script is run only for a parallel run that completed
\* without being cancelled: no step runs it for a run on which Stop was
\* clicked.
C30_NoDoneScriptAfterStop ==
    [][ (run'.id = run.id /\ run'.scripts > run.scripts)
           => (run.mode = "par" /\ run.stops = 0) ]_vars

====
